---- MODULE Spec2Model ----
(***************************************************************************)
(* Model of the clavision backend: the LINE login handshake                *)
(* (lineLoginCallback, the lineLoginState collection), access-token        *)
(* issuance and verification, and the per-user timetable (setClass).       *)
(*                                                                         *)
(* Every HTTP / GraphQL request is a process.  A request's steps are the   *)
(* stretches of its handler between two awaited Firestore operations: one  *)
(* step performs one store operation atomically, together with the local   *)
(* computation that follows it.  Spec interleaves the steps of all         *)
(* requests; SeqSpec runs the requests one after the other.                *)
(*                                                                         *)
(* Idealisations: crypto.randomBytes never repeats a value it produced     *)
(* before (ids and tokens are fresh), and SHA-256 is injective on the      *)
(* bytes it is given.  What the code does with those primitives is         *)
(* modelled as written.                                                    *)
(***************************************************************************)
EXTENDS Integers, Sequences, FiniteSets, TLC

(***************************************************************************)
(* Bounds of the model.                                                    *)
(***************************************************************************)
\* number of requests (lineLoginCallback or setClass) in one behaviour
MaxRequests == 3
\* number of login states generateAndWriteLineLoginState may issue
MaxStates == 3
\* number of user ids createRandomId may draw for createUser
MaxUsers == 2
\* number of distinct LINE accounts
MaxLineUsers == 2
\* hex digits are 0..MaxHexDigit (0..15 in the program)
MaxHexDigit == 1
\* bytes of an access token (24 in the program); a token has 2*TokenBytes digits
TokenBytes == 2
\* length of a file hash (64 in the program)
FileHashLength == 2

Requests == 1..MaxRequests
StateIds == 1..MaxStates
\* a state value generateAndWriteLineLoginState never returns
ForgedStateIds == {0}
LineUserIds == 1..MaxLineUsers
UserIds == 1..MaxUsers
HexDigits == 0..MaxHexDigit

(***************************************************************************)
(* Types of the database module.                                           *)
(***************************************************************************)
Week == {"monday", "tuesday", "wednesday", "thursday", "friday", "saturday"}
Time == {"class1", "class2", "class3", "class4", "class5"}
\* the ids of the documents of the class collection
ClassIds == {"c1"}
\* a ClassId string that is the id of no document of the class collection
UnknownClassIds == {"c0"}
\* JavaScript null in a stored timetable cell
Null == "null"
\* JavaScript null where the other values are objects
NullObject == [null |-> TRUE]
\* JavaScript undefined (DocumentSnapshot.data() of a missing document)
Undefined == [undefined |-> TRUE]

\* the cells and values the modelled clients send to setClass
InputWeek == {"monday", "saturday"}
InputTime == {"class1", "class5"}
InputClassId == ClassIds \cup UnknownClassIds \cup {Null}

\* a query parameter: a string, or missing / not a string
QueryString(v) == [type |-> "string", value |-> v]
QueryMissing == [type |-> "undefined"]

(***************************************************************************)
(* Access tokens and their hash.                                           *)
(***************************************************************************)
TokenLen == 2 * TokenBytes

\* Outcomes of createAccessToken: hex strings of 2*TokenBytes digits.  The
\* model samples those that are 0 everywhere but at digit TokenBytes+1 (the
\* last digit accessTokenToTypedArray reads) and at the last digit.
AccessTokens ==
    { t \in [1..TokenLen -> HexDigits] :
        \A i \in 1..TokenLen : i \notin {TokenBytes + 1, TokenLen} => t[i] = 0 }

\* Number.parseInt(two hex digits, 16)
parseInt16(hi, lo) == 16 * hi + lo

\* binary[i] = Number.parseInt(accessToken.slice(i, i + 2), 16), 0 <= i < 24
\* (sequences are 1-based: slice(i, i+2) is digits i+1 and i+2)
accessTokenToTypedArray(accessToken) ==
    [i \in 0..(TokenBytes - 1) |->
        parseInt16(accessToken[i + 1], accessToken[i + 2]) % 256]

\* SHA-256 of a byte array, taken as injective
sha256(bytes) == <<"sha256", bytes>>

hashAccessToken(accessToken) == sha256(accessTokenToTypedArray(accessToken))

(***************************************************************************)
(* The timetable and its output type.                                      *)
(***************************************************************************)
\* the classInTimeTable createUser writes: every cell null
EmptyClassInTimeTable == [w \in Week |-> [t \in Time |-> Null]]

\* mutant of classIdMaybeToClassOutTypeMaybe: null is wrapped like an id
classIdMaybeToClassOutTypeMaybe_wrapsNull(classId) == [id |-> classId]

classIdMaybeToClassOutTypeMaybe(classId) ==
    IF classId = Null THEN NullObject ELSE [id |-> classId]

classOfDayToOutType(classOfDay) ==
    [t \in Time |-> classIdMaybeToClassOutTypeMaybe(classOfDay[t])]

classOfWeekToOutType(classOfWeek) ==
    [w \in Week |-> classOfDayToOutType(classOfWeek[w])]

\* the profile LINE reports for an account
NameOf(lineUserId) == <<"name", lineUserId>>
ImageFileHashOf(lineUserId) == <<"image", lineUserId>>

(***************************************************************************)
(* State.                                                                  *)
(***************************************************************************)
VARIABLES
    lineLoginState,  \* collection lineLoginState: state id -> StateData
    user,            \* collection user: user id -> UserData
    pc,              \* request -> position in its handler
    req,             \* request -> operation and arguments
    local,           \* request -> local variables of the handler
    last,            \* history: the request answered last and its answer
    repeated,        \* history: the request answered last had the arguments
                     \* of the request answered before it
    issuedStates,    \* history: the state ids generated so far
    issuedTokens,    \* history: one entry per write of a token hash, in order
    checkLog         \* history: state id -> what checkExistsAndDeleteState
                     \* returned for it since it was issued, in order

vars ==
    <<lineLoginState, user, pc, req, local, last, repeated, issuedStates,
      issuedTokens, checkLog>>

NoRequest == [op |-> "none"]
NoLocal == [none |-> TRUE]
NoLast == [req |-> NoRequest, local |-> NoLocal, response |-> [kind |-> "none"]]

Init ==
    /\ lineLoginState = <<>>
    /\ user = <<>>
    /\ pc = [r \in Requests |-> "idle"]
    /\ req = [r \in Requests |-> NoRequest]
    /\ local = [r \in Requests |-> NoLocal]
    /\ last = NoLast
    /\ repeated = FALSE
    /\ issuedStates = {}
    /\ issuedTokens = <<>>
    /\ checkLog = [s \in StateIds |-> <<>>]

(***************************************************************************)
(* Firestore operations.                                                   *)
(***************************************************************************)
\* (await docRef.get()).data()
docData(collection, id) ==
    IF id \in DOMAIN collection THEN collection[id] ELSE Undefined

\* docRef.create(data) / a new key
docCreate(collection, id, data) == collection @@ (id :> data)

\* mutant of docDelete: the document stays
docDelete_keeps(collection, id) == collection

\* mutant of docDelete: every document of the collection is removed
docDelete_clears(collection, id) == <<>>

\* docRef.delete(): deleting a missing document succeeds and changes nothing
docDelete(collection, id) ==
    [k \in (DOMAIN collection) \ {id} |-> collection[k]]

\* the first document of a query result (Firestore orders by document id)
FirstDoc(ids) == CHOOSE i \in ids : \A j \in ids : i <= j

\* requests start in the order of their numbers
CanStart(r) ==
    /\ pc[r] = "idle"
    /\ \A q \in Requests : q < r => pc[q] # "idle"

\* the handler of request r answers and ends; its locals are gone
Answer(r, request, locals, resp) ==
    /\ last' = [req |-> request, local |-> locals, response |-> resp]
    /\ repeated' = (request = last.req)
    /\ pc' = [pc EXCEPT ![r] = "done"]
    /\ req' = [req EXCEPT ![r] = NoRequest]
    /\ local' = [local EXCEPT ![r] = NoLocal]

(***************************************************************************)
(* getLineLoginUrl: generateAndWriteLineLoginState                         *)
(***************************************************************************)
\* createRandomId() for a state: an id not generated before.  State ids are
\* only compared for equality, so the model draws them in increasing order.
NewStateIds ==
    {s \in StateIds \ issuedStates : \A q \in StateIds : q < s => q \in issuedStates}

generateAndWriteLineLoginState ==
    \E state \in NewStateIds :
        /\ lineLoginState' =
              docCreate(lineLoginState, state,
                        [createdAt |-> Cardinality(issuedStates)])
        /\ issuedStates' = issuedStates \cup {state}
        /\ UNCHANGED <<user, pc, req, local, last, repeated, issuedTokens, checkLog>>

(***************************************************************************)
(* lineLoginCallback                                                       *)
(***************************************************************************)
\* mutant of QueryIsMalformed: only the state parameter is tested
QueryIsMalformed_stateOnly(query) == query.state.type # "string"

\* typeof query.code !== "string" || typeof query.state !== "string"
QueryIsMalformed(query) ==
    query.code.type # "string" \/ query.state.type # "string"

\* mutant of StateDataExists: the result of the read is not looked at
StateDataExists_always(data) == TRUE

\* mutant of StateDataExists: the test is inverted (data === undefined)
StateDataExists_inverted(data) == data = Undefined

\* checkExistsAndDeleteState: data !== undefined
StateDataExists(data) == data # Undefined

\* response.redirect(data.appHttpsSchemeAndHostName)
RedirectToApp == [kind |-> "redirect", to |-> "appHttpsSchemeAndHostName"]

\* response.status(400).send("LINE LogIn Error: ...")
Status400 == [kind |-> "status400"]

\* history: checkExistsAndDeleteState(state) returned result
Logged(log, state, result) ==
    IF state \in issuedStates
    THEN [log EXCEPT ![state] = Append(@, result)]
    ELSE log

\* The state values a client can present: those issued so far (a random id
\* is not known before it is generated) and one that is never issued.
PresentableStates == issuedStates \cup ForgedStateIds

\* The request arrives.  A malformed query is redirected to the app.
\* Otherwise checkExistsAndDeleteState reads the state document: when it is
\* missing the function returns false and the handler answers 400.
lineLoginCallback_start(r) ==
    /\ CanStart(r)
    /\ \E code \in {QueryString("code"), QueryMissing},
          state \in {QueryString(s) : s \in PresentableStates} \cup {QueryMissing} :
        LET query == [code |-> code, state |-> state]
            request == [op |-> "lineLoginCallback", query |-> query]
        IN
        IF QueryIsMalformed(query)
        THEN /\ Answer(r, request, NoLocal, RedirectToApp)
             /\ UNCHANGED checkLog
        ELSE LET data == docData(lineLoginState, query.state.value) IN
             IF StateDataExists(data)
             THEN /\ pc' = [pc EXCEPT ![r] = "checkDelete"]
                  /\ req' = [req EXCEPT ![r] = request]
                  /\ local' = [local EXCEPT ![r] = [data |-> data]]
                  /\ UNCHANGED <<last, repeated, checkLog>>
             ELSE /\ Answer(r, request, [stateExists |-> FALSE], Status400)
                  /\ checkLog' = Logged(checkLog, query.state.value, FALSE)
    /\ UNCHANGED <<lineLoginState, user, issuedStates, issuedTokens>>

\* checkExistsAndDeleteState: await docRef.delete(); return true
lineLoginCallback_checkDelete(r) ==
    /\ pc[r] = "checkDelete"
    /\ lineLoginState' = docDelete(lineLoginState, req[r].query.state.value)
    /\ local' = [local EXCEPT ![r] = [stateExists |-> TRUE]]
    /\ checkLog' = Logged(checkLog, req[r].query.state.value, TRUE)
    /\ pc' = [pc EXCEPT ![r] = "lineLogin"]
    /\ UNCHANGED <<user, req, last, repeated, issuedStates, issuedTokens>>

\* mutant of getUserFromLineAccountId: the query result is taken as empty
getUserFromLineAccountId_findsNone(lineUserId) == NullObject

\* getUserFromLineAccountId: where("lineUserId", "==", lineUserId), docs[0]
getUserFromLineAccountId(lineUserId) ==
    LET docs == {u \in DOMAIN user : user[u].lineUserId = lineUserId} IN
    IF docs = {} THEN NullObject
    ELSE [id |-> FirstDoc(docs), data |-> user[FirstDoc(docs)]]

\* The token exchange with LINE (axios.post) and verifyAccessTokenAndGetData
\* fail or yield the LINE account; then getUserFromLineAccountId is queried.
lineLoginCallback_lineLogin(r) ==
    /\ pc[r] = "lineLogin"
    /\ \/ \E failure \in {"token request failed", "token invalid!",
                           "token data is invalid!"} :
               Answer(r, req[r], local[r], [kind |-> "error", error |-> failure])
       \/ \E sub \in LineUserIds :
            LET userData == getUserFromLineAccountId(sub) IN
            /\ local' = [local EXCEPT ![r] =
                            [stateExists |-> TRUE, sub |-> sub, userData |-> userData]]
            /\ pc' = [pc EXCEPT ![r] =
                            IF userData = NullObject THEN "createUser"
                                                     ELSE "updateAccessToken"]
            /\ UNCHANGED <<req, last, repeated>>
    /\ UNCHANGED <<lineLoginState, user, issuedStates, issuedTokens, checkLog>>

\* the tokens crypto.randomBytes has not produced yet
FreshAccessTokens ==
    AccessTokens \ {issuedTokens[i].accessToken : i \in DOMAIN issuedTokens}

\* mutant of NewUserData: the token itself is stored, not its hash
NewUserData_rawToken(lineUserId, accessToken) ==
    [name |-> NameOf(lineUserId),
     createdAt |-> Len(issuedTokens),
     imageFileHash |-> ImageFileHashOf(lineUserId),
     lastIssuedAccessTokenHash |-> accessToken,
     lineUserId |-> lineUserId,
     classInTimeTable |-> EmptyClassInTimeTable]

\* the document createUser creates; createdAt is the time of the write,
\* counted in token hashes written before
NewUserData(lineUserId, accessToken) ==
    [name |-> NameOf(lineUserId),
     createdAt |-> Len(issuedTokens),
     imageFileHash |-> ImageFileHashOf(lineUserId),
     lastIssuedAccessTokenHash |-> hashAccessToken(accessToken),
     lineUserId |-> lineUserId,
     classInTimeTable |-> EmptyClassInTimeTable]

createAccessTokenUrl(accessToken) ==
    [kind |-> "redirect", to |-> "appHostName", accessToken |-> accessToken]

\* createUser: saveUserImageFromUrl fails, or the user document is created
\* under a new id with the hash of a new token; the token is redirected to.
lineLoginCallback_createUser(r) ==
    /\ pc[r] = "createUser"
    /\ \/ /\ Answer(r, req[r], local[r],
                    [kind |-> "error", error |-> "saveUserImageFromUrl"])
          /\ UNCHANGED <<user, issuedTokens>>
       \/ \E userId \in UserIds \ DOMAIN user, accessToken \in FreshAccessTokens :
            /\ user' = docCreate(user, userId,
                                 NewUserData(local[r].sub, accessToken))
            /\ issuedTokens' = Append(issuedTokens,
                    [userId |-> userId, lineUserId |-> local[r].sub,
                     accessToken |-> accessToken, by |-> "createUser",
                     state |-> req[r].query.state.value])
            /\ Answer(r, req[r], local[r], createAccessTokenUrl(accessToken))
    /\ UNCHANGED <<lineLoginState, issuedStates, checkLog>>

\* docRef.update({lastIssuedAccessTokenHash: ...})
docUpdateAccessTokenHash(collection, userId, accessTokenHash) ==
    [collection EXCEPT ![userId].lastIssuedAccessTokenHash = accessTokenHash]

\* updateAccessToken(userData.id) and the redirect with the new token
lineLoginCallback_updateAccessToken(r) ==
    /\ pc[r] = "updateAccessToken"
    /\ \E newAccessToken \in FreshAccessTokens :
        LET userId == local[r].userData.id IN
        /\ user' = docUpdateAccessTokenHash(user, userId,
                                            hashAccessToken(newAccessToken))
        /\ issuedTokens' = Append(issuedTokens,
                [userId |-> userId, lineUserId |-> local[r].sub,
                 accessToken |-> newAccessToken, by |-> "updateAccessToken",
                 state |-> req[r].query.state.value])
        /\ Answer(r, req[r], local[r], createAccessTokenUrl(newAccessToken))
    /\ UNCHANGED <<lineLoginState, issuedStates, checkLog>>

(***************************************************************************)
(* verifyAccessTokenAndGetUserData, getUser, setClass                      *)
(***************************************************************************)
InvalidSession ==
    [kind |-> "error", error |-> "access token invalidated by another login"]

\* mutant of UsersWithAccessTokenHash: the query has no where clause
UsersWithAccessTokenHash_all(accessTokenHash) == DOMAIN user

\* mutant of UsersWithAccessTokenHash: the digests are compared on their
\* first byte only
UsersWithAccessTokenHash_prefix(accessTokenHash) ==
    {u \in DOMAIN user :
        user[u].lastIssuedAccessTokenHash[2][0] = accessTokenHash[2][0]}

\* where("lastIssuedAccessTokenHash", "==", accessTokenHash).get()).docs
UsersWithAccessTokenHash(accessTokenHash) ==
    {u \in DOMAIN user : user[u].lastIssuedAccessTokenHash = accessTokenHash}

\* docs[0] === undefined
NoDocument(docs) == docs = {}

verifyAccessTokenAndGetUserData(accessToken) ==
    LET docs == UsersWithAccessTokenHash(hashAccessToken(accessToken)) IN
    IF NoDocument(docs) THEN InvalidSession
    ELSE LET id == FirstDoc(docs) IN
         [kind |-> "user",
          id |-> id,
          name |-> user[id].name,
          imageFileHash |-> user[id].imageFileHash,
          classInTimeTable |-> classOfWeekToOutType(user[id].classInTimeTable)]

\* getUser, reading the user collection as it is in users
getUserIn(users, id) ==
    LET data == docData(users, id) IN
    IF data = Undefined THEN [kind |-> "error", error |-> "userId dose not exits"]
    ELSE [kind |-> "user",
          name |-> data.name,
          classInTimeTable |-> classOfWeekToOutType(data.classInTimeTable),
          imageFileHash |-> data.imageFileHash]

getUser(id) == getUserIn(user, id)

\* setClass: verifyAccessTokenAndGetUserData throws, or yields userData
setClass_start(r) ==
    /\ CanStart(r)
    /\ \E accessToken \in AccessTokens, week \in InputWeek, time \in InputTime,
          classId \in InputClassId :
        LET userData == verifyAccessTokenAndGetUserData(accessToken)
            request == [op |-> "setClass", accessToken |-> accessToken,
                        week |-> week, time |-> time, classId |-> classId]
        IN
        IF userData = InvalidSession
        THEN Answer(r, request, NoLocal, InvalidSession)
        ELSE /\ pc' = [pc EXCEPT ![r] = "setClassWrite"]
             /\ req' = [req EXCEPT ![r] = request]
             /\ local' = [local EXCEPT ![r] = [userData |-> userData]]
             /\ UNCHANGED <<last, repeated>>
    /\ UNCHANGED <<lineLoginState, user, issuedStates, issuedTokens, checkLog>>

\* mutant of docSetMergeClass: the day's map is replaced, not merged into
docSetMergeClass_replacesDay(collection, userId, week, time, classId) ==
    [collection EXCEPT ![userId].classInTimeTable[week] =
        [t \in Time |-> IF t = time THEN classId ELSE Null]]

\* mutant of docSetMergeClass: set without merge, the document is replaced
docSetMergeClass_noMerge(collection, userId, week, time, classId) ==
    [collection EXCEPT ![userId] =
        [classInTimeTable |-> (week :> (time :> classId))]]

\* docRef.set({classInTimeTable: {[week]: {[time]: classId}}}, {merge: true})
docSetMergeClass(collection, userId, week, time, classId) ==
    [collection EXCEPT ![userId].classInTimeTable[week][time] = classId]

\* mutant of setClassResult: the data read before the write is returned
setClassResult_stale(userData, week, time, classId) == userData

\* the value setClass returns: userData with the one cell replaced
setClassResult(userData, week, time, classId) ==
    [userData EXCEPT !.classInTimeTable[week][time] =
                        classIdMaybeToClassOutTypeMaybe(classId)]

setClass_write(r) ==
    /\ pc[r] = "setClassWrite"
    /\ user' = docSetMergeClass(user, local[r].userData.id,
                                req[r].week, req[r].time, req[r].classId)
    /\ Answer(r, req[r], local[r],
              setClassResult(local[r].userData,
                             req[r].week, req[r].time, req[r].classId))
    /\ UNCHANGED <<lineLoginState, issuedStates, issuedTokens, checkLog>>

(***************************************************************************)
(* parseFileHash and the file endpoint                                     *)
(***************************************************************************)
\* the characters of "0123456789abcdef"
HexAlphabet ==
    {"0", "1", "2", "3", "4", "5", "6", "7", "8", "9",
     "a", "b", "c", "d", "e", "f"}

\* the characters the modelled clients build a path or a value from
PathChars == {"0", "f", "A", "g"}

\* the strings of at most n characters
Strings(n) == UNION {[1..k -> PathChars] : k \in 0..n}

\* a JavaScript value: a string, or a value of another type
JsString(s) == [type |-> "string", value |-> s]
NonStrings == {[type |-> "number"], [type |-> "undefined"]}

\* throw new Error(message)
Throw(message) == [kind |-> "error", error |-> message]

\* mutant of parseFileHash: the length is not tested
parseFileHash_anyLength(value) ==
    IF value.type # "string" THEN Throw("Hash must be string")
    ELSE IF \E i \in DOMAIN value.value : value.value[i] \notin HexAlphabet
    THEN Throw("Hash char must match /[0-9a-f]/")
    ELSE [kind |-> "value", value |-> value]

parseFileHash(value) ==
    IF value.type # "string" THEN Throw("Hash must be string")
    ELSE IF Len(value.value) # FileHashLength
    THEN Throw("Hash length must be 64")
    ELSE IF \E i \in DOMAIN value.value : value.value[i] \notin HexAlphabet
    THEN Throw("Hash char must match /[0-9a-f]/")
    ELSE [kind |-> "value", value |-> value]

\* request.path.slice(1)
PathSlice1(path) == SubSeq(path, 2, Len(path))

\* the file endpoint: OPTIONS is answered 200, GET pipes the stream of the
\* file named by the path when parseFileHash accepts it, anything else is
\* answered 400
file(r) ==
    /\ CanStart(r)
    /\ \E method \in {"OPTIONS", "GET", "POST"},
          rest \in Strings(FileHashLength + 1) :
        LET path == <<"/">> \o rest
            request == [op |-> "file", method |-> method, path |-> path]
            fileHash == parseFileHash(JsString(PathSlice1(path)))
        IN
        Answer(r, request, NoLocal,
               IF method = "OPTIONS" THEN [kind |-> "status200"]
               ELSE IF method = "GET"
               THEN IF fileHash.kind = "error" THEN fileHash
                    ELSE [kind |-> "stream", fileHash |-> fileHash.value.value]
               ELSE [kind |-> "status400", text |-> "invalid file parameter"])
    /\ UNCHANGED <<lineLoginState, user, issuedStates, issuedTokens, checkLog>>

\* the FileHash scalar of the GraphQL schema: parseValue is parseFileHash
fileHashParseValue(r) ==
    /\ CanStart(r)
    /\ \E value \in {JsString(s) : s \in Strings(FileHashLength + 1)}
                        \cup NonStrings :
        Answer(r, [op |-> "parseValue", value |-> value], NoLocal,
               parseFileHash(value))
    /\ UNCHANGED <<lineLoginState, user, issuedStates, issuedTokens, checkLog>>

(***************************************************************************)
(* Specifications.                                                         *)
(***************************************************************************)
Step(r) ==
    \/ lineLoginCallback_start(r)
    \/ lineLoginCallback_checkDelete(r)
    \/ lineLoginCallback_lineLogin(r)
    \/ lineLoginCallback_createUser(r)
    \/ lineLoginCallback_updateAccessToken(r)
    \/ setClass_start(r)
    \/ setClass_write(r)

Next ==
    \/ generateAndWriteLineLoginState
    \/ \E r \in Requests : Step(r)

\* requests interleave at their awaited store operations
Spec == Init /\ [][Next]_vars

\* no request is between two of its steps
NoneInFlight(r) == \A q \in Requests \ {r} : pc[q] \in {"idle", "done"}

SeqNext ==
    \/ (NoneInFlight(0) /\ generateAndWriteLineLoginState)
    \/ \E r \in Requests : NoneInFlight(r) /\ Step(r)

\* requests are served one after the other
SeqSpec == Init /\ [][SeqNext]_vars

FileNext ==
    \E r \in Requests :
        \/ file(r)
        \/ fileHashParseValue(r)

\* the requests to the file endpoint and the values given to the scalar
FileSpec == Init /\ [][FileNext]_vars

(***************************************************************************)
(* Claims.                                                                 *)
(***************************************************************************)
\* the handler answered last handed out this token
LastAnsweredToken(accessToken) ==
    /\ last.req.op = "lineLoginCallback"
    /\ last.response.kind = "redirect"
    /\ last.response.to = "appHostName"
    /\ last.response.accessToken = accessToken

\* the entries of issuedTokens before entry n that were issued to the same user
EarlierIssues(n) ==
    {i \in 1..(n - 1) : issuedTokens[i].userId = issuedTokens[n].userId}

\* C1 (token rotation): when requests are served one after the other and
\* updateAccessToken has just returned T2 for a user U, every token T1
\* issued to U before fails verification with the invalid-session error, and
\* T2 verifies and yields U.
C1_TokenRotation ==
    LET n == Len(issuedTokens) IN
    (/\ n >= 1
     /\ issuedTokens[n].by = "updateAccessToken"
     /\ LastAnsweredToken(issuedTokens[n].accessToken))
    => /\ \A i \in EarlierIssues(n) :
            verifyAccessTokenAndGetUserData(issuedTokens[i].accessToken)
                = InvalidSession
       /\ verifyAccessTokenAndGetUserData(issuedTokens[n].accessToken).kind = "user"
       /\ verifyAccessTokenAndGetUserData(issuedTokens[n].accessToken).id
            = issuedTokens[n].userId

\* the tokens issued to a LINE account that verify now
VerifyingTokensOf(lineUserId) ==
    {i \in DOMAIN issuedTokens :
        /\ issuedTokens[i].lineUserId = lineUserId
        /\ verifyAccessTokenAndGetUserData(issuedTokens[i].accessToken).kind = "user"}

\* C2 (single active session): in every reachable state, whatever the
\* interleaving of the logins, at most one of the tokens issued to a user
\* verifies, and it is the one whose hash was written last.
C2_SingleActiveSession ==
    \A l \in LineUserIds :
        \A i \in VerifyingTokensOf(l) :
            \A j \in DOMAIN issuedTokens :
                issuedTokens[j].lineUserId = l => j <= i

\* C3 (one-time login state, sequential): when requests are served one after
\* the other, of the calls of checkExistsAndDeleteState(s) made for a state s
\* since generateAndWriteLineLoginState returned it, the first returns true
\* and every later one returns false.
C3_OneTimeState ==
    \A s \in issuedStates :
        \A i \in DOMAIN checkLog[s] : checkLog[s][i] = (i = 1)

C3_Witness ==
    \E s \in issuedStates : checkLog[s] = <<TRUE, FALSE>>

\* C4 (at-most-once consumption under concurrency): for every issued state s
\* and every interleaving of concurrent checkExistsAndDeleteState(s) calls, at
\* most one call returns true.
C4_AtMostOnceConsumption ==
    \A s \in StateIds :
        Cardinality({i \in DOMAIN checkLog[s] : checkLog[s][i]}) <= 1

\* the request answered last is a well-formed lineLoginCallback with state s
LastCallbackWith(s) ==
    /\ last.req.op = "lineLoginCallback"
    /\ ~QueryIsMalformed(last.req.query)
    /\ last.req.query.state.value = s

\* the writes of a token hash (user created or hash overwritten) made by
\* callbacks that presented state s
IssuesUnder(s) == {i \in DOMAIN issuedTokens : issuedTokens[i].state = s}

Started(r) == IF pc'[r] = "done" THEN last'.req ELSE req'[r]

\* this step is the first step of request r, and r is a call of op
Starts(r, op) ==
    /\ pc[r] = "idle"
    /\ pc'[r] # "idle"
    /\ Started(r).op = op

\* this step is the write of setClass request r
WritesSetClass(r) ==
    /\ pc[r] = "setClassWrite"
    /\ pc'[r] = "done"

\* request r starts as a well-formed lineLoginCallback whose state is not stored
StartsWithMissingState(r) ==
    /\ Starts(r, "lineLoginCallback")
    /\ ~QueryIsMalformed(Started(r).query)
    /\ Started(r).query.state.value \notin DOMAIN lineLoginState

\* C6 as stated: a lineLoginCallback whose state is unknown or already consumed
\* is answered by a redirect to the app's home, and creates no session.
C6_RejectedByRedirect ==
    [][\A r \in Requests :
          StartsWithMissingState(r) =>
            /\ pc'[r] = "done"
            /\ last'.response = RedirectToApp
            /\ user' = user /\ issuedTokens' = issuedTokens]_vars

\* C6 amended: a lineLoginCallback whose state is unknown or already consumed
\* is answered with status 400 and an error text, the handler ends there, and
\* no user is created and no token hash written.
C6_RejectedWithStatus400 ==
    [][\A r \in Requests :
          StartsWithMissingState(r) =>
            /\ pc'[r] = "done"
            /\ last'.response = Status400
            /\ user' = user /\ issuedTokens' = issuedTokens]_vars

C6_Witness ==
    /\ last.req.op = "lineLoginCallback"
    /\ last.response = Status400
    /\ last.req.query.state.value \in issuedStates
    /\ user # <<>>

\* C7: checkExistsAndDeleteState(s) for a state s that is not stored returns
\* false and leaves the lineLoginState and the user collection unchanged.
C7_MissingStateReturnsFalse ==
    [][\A r \in Requests :
          StartsWithMissingState(r) =>
            /\ last'.local = [stateExists |-> FALSE]
            /\ checkLog' = Logged(checkLog, Started(r).query.state.value, FALSE)
            /\ lineLoginState' = lineLoginState
            /\ user' = user]_vars

C7_Witness ==
    /\ last.req.op = "lineLoginCallback"
    /\ last.local = [stateExists |-> FALSE]
    /\ lineLoginState # <<>>
    /\ user # <<>>

\* users2 is users1 but for cell (week, time) of user u, which holds classId
OnlyCellWritten(users1, users2, u, week, time, classId) ==
    /\ DOMAIN users2 = DOMAIN users1
    /\ u \in DOMAIN users1
    /\ \A v \in DOMAIN users1 :
        /\ users2[v].name = users1[v].name
        /\ users2[v].createdAt = users1[v].createdAt
        /\ users2[v].lineUserId = users1[v].lineUserId
        /\ users2[v].imageFileHash = users1[v].imageFileHash
        /\ users2[v].lastIssuedAccessTokenHash = users1[v].lastIssuedAccessTokenHash
        /\ \A w \in Week, t \in Time :
             users2[v].classInTimeTable[w][t] =
                IF v = u /\ w = week /\ t = time
                THEN classId
                ELSE users1[v].classInTimeTable[w][t]

\* the write of setClass, applied in users to any cell of user u with value
\* X, shows through getUser as that cell changed and the other 29 kept
EveryCellWritable(users, u, X) ==
    LET before == getUserIn(users, u).classInTimeTable IN
    \A week \in Week, time \in Time :
        getUserIn(docSetMergeClass(users, u, week, time, X), u).classInTimeTable
            = [before EXCEPT ![week][time] = classIdMaybeToClassOutTypeMaybe(X)]

\* C8 (single-cell write): when requests are served one after the other and
\* setClass(token, week, time, X) succeeds for user U, getUser(U) shows cell
\* (week, time) = X and each of the other 29 cells as getUser(U) showed it
\* before the call, whatever the cell held; and the write of X does so for
\* each of the 30 cells.
C8_SingleCellWrite ==
    [][\A r \in Requests :
          WritesSetClass(r) =>
            LET U == verifyAccessTokenAndGetUserData(req[r].accessToken).id
                before == getUserIn(user, U).classInTimeTable
                after == getUserIn(user', U).classInTimeTable
            IN
            /\ last'.response.kind = "user"
            /\ last'.response.id = U
            /\ after = [before EXCEPT ![req[r].week][req[r].time] =
                            classIdMaybeToClassOutTypeMaybe(req[r].classId)]
            /\ EveryCellWritable(user, U, req[r].classId)]_vars

\* setClass has written a cell of a day another cell of which is occupied,
\* and getUser shows both
C8_Witness ==
    /\ last.req.op = "setClass"
    /\ last.response.kind = "user"
    /\ last.req.classId # Null
    /\ getUser(last.response.id).classInTimeTable[last.req.week][last.req.time]
         = [id |-> last.req.classId]
    /\ \E t \in Time \ {last.req.time} :
         /\ last.local.userData.classInTimeTable[last.req.week][t] # NullObject
         /\ getUser(last.response.id).classInTimeTable[last.req.week][t]
              = last.local.userData.classInTimeTable[last.req.week][t]

\* C9 (idempotence of setClass): when requests are served one after the other
\* and setClass is called a second time with the arguments of a call that
\* has just succeeded, the stored grid stays as the first call left it and
\* the second call succeeds and returns what the first returned.
C9_SetClassIdempotent ==
    [][\A r \in Requests :
          (WritesSetClass(r) /\ last.req = req[r] /\ last.response.kind = "user")
          => /\ user' = user
             /\ last'.response = last.response]_vars

C9_Witness ==
    /\ repeated
    /\ last.req.op = "setClass"
    /\ last.response.kind = "user"
    /\ last.req.classId # Null

\* the access token matches no user's lastIssuedAccessTokenHash
MatchesNoUser(accessToken) ==
    \A u \in DOMAIN user :
        user[u].lastIssuedAccessTokenHash # hashAccessToken(accessToken)

\* C10 (no partial success): setClass called with a token whose hash matches
\* no user's lastIssuedAccessTokenHash throws the invalid-session error and
\* writes nothing; a step of setClass either writes its one cell, and nothing
\* else of any user, or changes no user.
C10_NoPartialSuccess ==
    [][\A r \in Requests :
          /\ Starts(r, "setClass") =>
                /\ user' = user
                /\ MatchesNoUser(Started(r).accessToken) =>
                      (pc'[r] = "done" /\ last'.response = InvalidSession)
          /\ WritesSetClass(r) =>
                \E u \in DOMAIN user :
                    OnlyCellWritten(user, user', u, req[r].week, req[r].time,
                                    req[r].classId)]_vars

\* an invalid token was refused while a user with an occupied cell exists
C10_Witness ==
    /\ last.req.op = "setClass"
    /\ last.response = InvalidSession
    /\ \E u \in DOMAIN user, w \in Week, t \in Time :
         user[u].classInTimeTable[w][t] # Null

\* the access tokens createAccessToken has returned so far
IssuedAccessTokens == {issuedTokens[i].accessToken : i \in DOMAIN issuedTokens}

\* C11 (hasher distinctness): hashAccessToken gives any two distinct tokens
\* that createAccessToken produced different digests (SHA-256 taken as
\* injective on its byte input), and gives the token whose hash a user
\* document was created with the hash that was stored.
C11_HasherDistinct ==
    /\ \A t1 \in IssuedAccessTokens, t2 \in IssuedAccessTokens :
          t1 # t2 => hashAccessToken(t1) # hashAccessToken(t2)
    /\ \A i \in DOMAIN issuedTokens :
          (i = Len(issuedTokens) /\ LastAnsweredToken(issuedTokens[i].accessToken))
          => user[issuedTokens[i].userId].lastIssuedAccessTokenHash
                = hashAccessToken(issuedTokens[i].accessToken)

\* C12 (exact-match verification): verifyAccessTokenAndGetUserData(token)
\* yields a user exactly when some user document's lastIssuedAccessTokenHash
\* equals the digest hashAccessToken computes for the token, and the user it
\* yields is one with that digest; otherwise it throws the invalid-session
\* error, and a setClass answered with that error presented a token whose
\* digest no user document holds.
C12_ExactMatchVerification ==
    /\ \A t \in AccessTokens :
          LET result == verifyAccessTokenAndGetUserData(t) IN
          IF \E u \in DOMAIN user :
                user[u].lastIssuedAccessTokenHash = hashAccessToken(t)
          THEN /\ result.kind = "user"
               /\ result.id \in DOMAIN user
               /\ user[result.id].lastIssuedAccessTokenHash = hashAccessToken(t)
          ELSE result = InvalidSession
    /\ (last.req.op = "setClass" /\ last.response = InvalidSession)
          => MatchesNoUser(last.req.accessToken)

\* a token issued earlier has been refused, a user holding another digest
C12_Witness ==
    /\ last.req.op = "setClass"
    /\ last.response = InvalidSession
    /\ last.req.accessToken \in IssuedAccessTokens
    /\ user # <<>>
    /\ \E t \in IssuedAccessTokens :
          verifyAccessTokenAndGetUserData(t).kind = "user"

\* the fields of a user document and of a lineLoginState document
UserDataFields ==
    {"name", "createdAt", "imageFileHash", "lastIssuedAccessTokenHash",
     "lineUserId", "classInTimeTable"}
StateDataFields == {"createdAt"}

\* value is a digest hashAccessToken produced for a token issued so far, and
\* not a string of 2 * TokenBytes hex digits
IsStoredDigest(value) ==
    /\ Len(value) # TokenLen
    /\ \E t \in IssuedAccessTokens : value = hashAccessToken(t)

\* C13 (raw tokens are never persisted): in every reachable state a
\* lineLoginState document holds its creation time only, and a user document
\* holds the LINE profile, its creation time, the timetable and, as
\* lastIssuedAccessTokenHash, the digest of an issued token, never the token;
\* the token whose digest createUser or updateAccessToken has just written
\* is the one handed to the caller in the redirect.
C13_RawTokensNeverPersisted ==
    /\ \A s \in DOMAIN lineLoginState :
          /\ DOMAIN lineLoginState[s] = StateDataFields
          /\ lineLoginState[s].createdAt \in Nat
    /\ \A u \in DOMAIN user :
          /\ DOMAIN user[u] = UserDataFields
          /\ user[u].lineUserId \in LineUserIds
          /\ user[u].name = NameOf(user[u].lineUserId)
          /\ user[u].imageFileHash = ImageFileHashOf(user[u].lineUserId)
          /\ user[u].createdAt \in Nat
          /\ \A w \in Week, t \in Time :
                user[u].classInTimeTable[w][t] \in InputClassId
          /\ IsStoredDigest(user[u].lastIssuedAccessTokenHash)
    /\ (last.req.op = "lineLoginCallback" /\ last.response.kind = "redirect"
            /\ last.response.to = "appHostName")
          => /\ issuedTokens # <<>>
             /\ last.response.accessToken
                  = issuedTokens[Len(issuedTokens)].accessToken
             /\ user[issuedTokens[Len(issuedTokens)].userId]
                    .lastIssuedAccessTokenHash
                  = hashAccessToken(last.response.accessToken)

\* a login has overwritten the digest createUser stored and handed out the
\* new token, while a login state is stored
C13_Witness ==
    /\ issuedTokens # <<>>
    /\ issuedTokens[Len(issuedTokens)].by = "updateAccessToken"
    /\ LastAnsweredToken(issuedTokens[Len(issuedTokens)].accessToken)
    /\ lineLoginState # <<>>

\* this step is the write of updateAccessToken made by callback r
UpdatesAccessToken(r) ==
    /\ pc[r] = "updateAccessToken"
    /\ pc'[r] = "done"

\* users2 is users1 but for the lastIssuedAccessTokenHash of user u
OnlyHashWritten(users1, users2, u) ==
    /\ DOMAIN users2 = DOMAIN users1
    /\ u \in DOMAIN users1
    /\ \A v \in DOMAIN users1 :
        /\ users2[v].name = users1[v].name
        /\ users2[v].createdAt = users1[v].createdAt
        /\ users2[v].lineUserId = users1[v].lineUserId
        /\ users2[v].imageFileHash = users1[v].imageFileHash
        /\ users2[v].classInTimeTable = users1[v].classInTimeTable
        /\ v # u => users2[v].lastIssuedAccessTokenHash
                        = users1[v].lastIssuedAccessTokenHash

\* the frame of updateAccessToken alone: one user's hash is written
C14_OnlyHashWritten ==
    [][\A r \in Requests :
          UpdatesAccessToken(r) =>
            /\ OnlyHashWritten(user, user', local[r].userData.id)
            /\ user'[local[r].userData.id].lastIssuedAccessTokenHash
                 = hashAccessToken(last'.response.accessToken)]_vars

\* C14 (re-login frame): updateAccessToken(U) changes only U's
\* lastIssuedAccessTokenHash - U's timetable, name, lineUserId and image hash
\* and every other user's document stay as they were - so that a request
\* bearing the new token is served as U and gets U's timetable as it was
\* before the re-login.
C14_ReloginFrame ==
    [][\A r \in Requests :
          UpdatesAccessToken(r) =>
            LET U == local[r].userData.id
                served == (verifyAccessTokenAndGetUserData(
                               last.response.accessToken))'
            IN
            /\ OnlyHashWritten(user, user', U)
            /\ served.kind = "user"
            /\ served.id = U
            /\ served.classInTimeTable = getUserIn(user, U).classInTimeTable]_vars

\* the user documents that carry a LINE user id
UsersOfLineAccount(lineUserId) ==
    {u \in DOMAIN user : user[u].lineUserId = lineUserId}

\* every callback that wrote a token hash consumed a state of its own
EachWithItsOwnState ==
    \A i, j \in DOMAIN issuedTokens :
        i # j => issuedTokens[i].state # issuedTokens[j].state

\* C15 (external identity uniqueness): in every reachable state, whatever
\* the interleaving of concurrent lineLoginCallback requests, each with its
\* own valid state, for one LINE user id, at most one user document has that
\* lineUserId.
C15_ExternalIdentityUnique ==
    EachWithItsOwnState =>
        \A l \in LineUserIds : Cardinality(UsersOfLineAccount(l)) <= 1

\* C16 (referential integrity of the timetable): in every reachable state,
\* every timetable cell of every user that is not null holds the id of a
\* document of the class collection.
C16_CellsNameExistingClasses ==
    \A u \in DOMAIN user : \A w \in Week, t \in Time :
        user[u].classInTimeTable[w][t] # Null
            => user[u].classInTimeTable[w][t] \in ClassIds

\* createUser has just created the user of the last entry of issuedTokens and
\* the callback has handed out its token
JustCreatedUser ==
    /\ issuedTokens # <<>>
    /\ issuedTokens[Len(issuedTokens)].by = "createUser"
    /\ LastAnsweredToken(issuedTokens[Len(issuedTokens)].accessToken)

\* the timetable has the 6 x 5 cells, all null
AllCellsPresentAndEmpty(classInTimeTable) ==
    /\ DOMAIN classInTimeTable = Week
    /\ \A w \in Week :
          /\ DOMAIN classInTimeTable[w] = Time
          /\ \A t \in Time : classInTimeTable[w][t] = Null

\* the first half of C17 alone: the stored timetable is complete and empty
C17_CreatedTimetableEmpty ==
    JustCreatedUser =>
        AllCellsPresentAndEmpty(
            user[issuedTokens[Len(issuedTokens)].userId].classInTimeTable)

\* C17: createUser stores a user document whose timetable has all 30 cells
\* (monday..saturday x class1..class5) present and null, and the token it
\* returns verifies to that new user.
C17_CreateUser ==
    JustCreatedUser =>
        LET created == issuedTokens[Len(issuedTokens)]
            verified == verifyAccessTokenAndGetUserData(created.accessToken)
        IN
        /\ AllCellsPresentAndEmpty(user[created.userId].classInTimeTable)
        /\ verified.kind = "user"
        /\ verified.id = created.userId

\* the ids under which createUser has created a document so far
CreatedUserIds ==
    {issuedTokens[i].userId :
        i \in {j \in DOMAIN issuedTokens : issuedTokens[j].by = "createUser"}}

\* C18 (grid shape invariant): after any sequence of createUser,
\* updateAccessToken and setClass operations, the user documents are those
\* createUser created - none removed, none added by another operation - and
\* each has its fields and exactly the 30 cells keyed by the 6 weekdays and
\* the 5 periods.
C18_GridShape ==
    /\ DOMAIN user = CreatedUserIds
    /\ \A u \in DOMAIN user :
          /\ DOMAIN user[u] = UserDataFields
          /\ DOMAIN user[u].classInTimeTable = Week
          /\ \A w \in Week : DOMAIN user[u].classInTimeTable[w] = Time

\* a user has logged in again and has an occupied cell
C18_Witness ==
    \E i \in DOMAIN issuedTokens :
        /\ issuedTokens[i].by = "updateAccessToken"
        /\ \E w \in Week, t \in Time :
              user[issuedTokens[i].userId].classInTimeTable[w][t] # Null

\* the error getUser throws when the document is missing
UserNotFound == [kind |-> "error", error |-> "userId dose not exits"]

\* C19: getUser(id) returns all 30 cells, each resolved from the stored cell
\* of the same weekday and period - a stored null as null, a stored class id
\* c as the reference {id: c} - together with the stored name and image
\* hash; when no user document has the id it throws the not-found error.
C19_GetUser ==
    \A id \in UserIds :
        LET result == getUser(id) IN
        IF id \in DOMAIN user
        THEN /\ result.kind = "user"
             /\ result.name = user[id].name
             /\ result.imageFileHash = user[id].imageFileHash
             /\ DOMAIN result.classInTimeTable = Week
             /\ \A w \in Week :
                   /\ DOMAIN result.classInTimeTable[w] = Time
                   /\ \A t \in Time :
                         result.classInTimeTable[w][t] =
                            IF user[id].classInTimeTable[w][t] = Null
                            THEN NullObject
                            ELSE [id |-> user[id].classInTimeTable[w][t]]
        ELSE result = UserNotFound

\* one user has an occupied cell and an empty one, and an id has no document
C19_Witness ==
    /\ \E id \in DOMAIN user : \E w \in Week, t1 \in Time, t2 \in Time :
          /\ getUser(id).classInTimeTable[w][t1] = NullObject
          /\ getUser(id).classInTimeTable[w][t2] \in
                {[id |-> c] : c \in ClassIds \cup UnknownClassIds}
    /\ \E id \in UserIds : getUser(id) = UserNotFound

\* C20 (no write on a stale session): for every interleaving of
\* setClass(T, ...) with a concurrent updateAccessToken for the same user,
\* when setClass has persisted its write on behalf of T the user's
\* lastIssuedAccessTokenHash is the hash of T.
C20_NoWriteOnStaleSession ==
    (last.req.op = "setClass" /\ last.response.kind = "user")
    => user[last.response.id].lastIssuedAccessTokenHash
          = hashAccessToken(last.req.accessToken)

\* C21 (returned snapshot matches the store): for every interleaving of
\* concurrent setClass calls by one user, the grid a setClass call returns
\* is the user's stored grid right after that call's write.
C21_ReturnedSnapshotMatchesStore ==
    (last.req.op = "setClass" /\ last.response.kind = "user")
    => last.response.classInTimeTable
          = classOfWeekToOutType(user[last.response.id].classInTimeTable)

\* request r is a setClass call that has verified its token and not written yet
PendingSetClass(r) == pc[r] = "setClassWrite"

\* C22 (no lost update between cells): under every interleaving of
\* concurrent setClass calls, the write of a call puts its value into its
\* cell of the user's stored grid and leaves every other cell of that user
\* as it was stored - in particular the cell a concurrent call for the same
\* user wrote just before keeps that call's value, and the cell a concurrent
\* call is about to write is untouched; when both target the same cell the
\* stored value is that of the write persisted last.
C22_NoLostUpdate ==
    [][\A r \in Requests :
          WritesSetClass(r) =>
            LET U == local[r].userData.id
                grid == user[U].classInTimeTable
                grid2 == user'[U].classInTimeTable
            IN
            /\ grid2 = [grid EXCEPT ![req[r].week][req[r].time] = req[r].classId]
            /\ (/\ last.req.op = "setClass"
                /\ last.response.kind = "user"
                /\ last.response.id = U
                /\ grid[last.req.week][last.req.time] = last.req.classId)
               => grid2[last.req.week][last.req.time] =
                     IF last.req.week = req[r].week /\ last.req.time = req[r].time
                     THEN req[r].classId
                     ELSE last.req.classId
            /\ \A q \in Requests \ {r} :
                  (PendingSetClass(q) /\ local[q].userData.id = U
                     /\ <<req[q].week, req[q].time>> # <<req[r].week, req[r].time>>)
                  => grid2[req[q].week][req[q].time] = grid[req[q].week][req[q].time]]_vars

\* two setClass calls of one user overlapped - the grid the second returned
\* misses the first one's cell - and both cells are in the stored grid
C22_Witness ==
    /\ last.req.op = "setClass"
    /\ last.response.kind = "user"
    /\ last.req.classId # Null
    /\ user[last.response.id].classInTimeTable[last.req.week][last.req.time]
          = last.req.classId
    /\ \E w \in Week, t \in Time :
          /\ <<w, t>> # <<last.req.week, last.req.time>>
          /\ user[last.response.id].classInTimeTable[w][t] # Null
          /\ last.response.classInTimeTable[w][t] = NullObject

\* the errors of the token exchange with LINE and of the id-token verification
UpstreamFailures ==
    {"token request failed", "token invalid!", "token data is invalid!"}

\* checkExistsAndDeleteState returned true for state s at least once
Consumed(s) ==
    /\ s \in issuedStates
    /\ \E k \in DOMAIN checkLog[s] : checkLog[s][k]

\* C23 (callback ordering): when requests are served one after the other, a
\* lineLoginCallback request creates a user or overwrites a
\* lastIssuedAccessTokenHash only after it has found and deleted its login
\* state; when the token exchange or the id-token verification then fails,
\* the request ends with that error, no user is created and no token hash
\* written under its state, and the state stays deleted.
C23_CallbackOrdering ==
    /\ \A r \in Requests :
          pc[r] \in {"lineLogin", "createUser", "updateAccessToken"}
          => /\ local[r].stateExists
             /\ Consumed(req[r].query.state.value)
             /\ req[r].query.state.value \notin DOMAIN lineLoginState
    /\ \A i \in DOMAIN issuedTokens :
          /\ Consumed(issuedTokens[i].state)
          /\ issuedTokens[i].state \notin DOMAIN lineLoginState
    /\ (/\ last.req.op = "lineLoginCallback"
        /\ last.response.kind = "error"
        /\ last.response.error \in UpstreamFailures)
       => /\ Consumed(last.req.query.state.value)
          /\ last.req.query.state.value \notin DOMAIN lineLoginState
          /\ IssuesUnder(last.req.query.state.value) = {}

\* the exchange with LINE has just failed for a callback that had consumed
\* its state, while a user and another login state are stored
C23_Witness ==
    /\ last.req.op = "lineLoginCallback"
    /\ last.response.kind = "error"
    /\ last.response.error \in UpstreamFailures
    /\ Consumed(last.req.query.state.value)
    /\ user # <<>>
    /\ lineLoginState # <<>>

\* this step is the lookup of callback r, after LINE identified the account
LooksUpUser(r) ==
    /\ pc[r] = "lineLogin"
    /\ pc'[r] \in {"createUser", "updateAccessToken"}

\* this step is createUser of callback r creating the document
CreatesUser(r) ==
    /\ pc[r] = "createUser"
    /\ pc'[r] = "done"
    /\ last'.response.kind = "redirect"

\* this step appends one entry to issuedTokens, for the token the redirect
\* of the step hands back
HandsBackOneToken ==
    /\ Len(issuedTokens') = Len(issuedTokens) + 1
    /\ last'.response = createAccessTokenUrl(
                            issuedTokens'[Len(issuedTokens')].accessToken)

C25_DigestUniqueAcrossUsers ==
    /\ \A u \in DOMAIN user, v \in DOMAIN user :
          u # v => user[u].lastIssuedAccessTokenHash
                      # user[v].lastIssuedAccessTokenHash
    /\ \A i \in DOMAIN issuedTokens :
          LET verified == verifyAccessTokenAndGetUserData(issuedTokens[i].accessToken)
          IN verified.kind = "user" => verified.id = issuedTokens[i].userId

\* a later entry of issuedTokens is for the user of entry i
Superseded(i) ==
    \E j \in DOMAIN issuedTokens :
        j > i /\ issuedTokens[j].userId = issuedTokens[i].userId

\* C26 (no revival): once a token issued to a user has been invalidated by a
\* later issuance for that user, verifyAccessTokenAndGetUserData fails on it
\* in every later state, whatever logins and setClass calls follow.
C26_NoRevival ==
    [][\A i \in DOMAIN issuedTokens :
          (/\ Superseded(i)
           /\ verifyAccessTokenAndGetUserData(issuedTokens[i].accessToken)
                 = InvalidSession)
          => (verifyAccessTokenAndGetUserData(issuedTokens[i].accessToken))'
                 = InvalidSession]_vars

\* byte i of the token: the value of the hex pair at characters 2i and 2i+1
\* (digits 2i+1 and 2i+2 of the 1-based sequence)
RawBytes(accessToken) ==
    [i \in 0..(TokenBytes - 1) |->
        parseInt16(accessToken[2 * i + 1], accessToken[2 * i + 2])]

\* C27: for a token t that createAccessToken produced,
\* accessTokenToTypedArray(t) is the array whose byte i, 0 <= i < TokenBytes,
\* is the value of the hex pair at characters 2i and 2i+1 of t.
C27_BytesAreRawBytes ==
    \A t \in IssuedAccessTokens : accessTokenToTypedArray(t) = RawBytes(t)

\* C28 (no expiry): a state written by generateAndWriteLineLoginState stays
\* stored, with the createdAt it was written with, and passes the existence
\* test of checkExistsAndDeleteState in every later state until
\* checkExistsAndDeleteState first returns true for it; issuing or consuming
\* other states, logins and setClass calls do not remove it.
C28_NoExpiry ==
    \A s \in issuedStates :
        IF Consumed(s)
        THEN s \notin DOMAIN lineLoginState
        ELSE /\ s \in DOMAIN lineLoginState
             /\ StateDataExists(docData(lineLoginState, s))
             /\ lineLoginState[s] = [createdAt |-> s - 1]

\* the state issued first is still stored after a later one was consumed by
\* a login and setClass has written a cell
C28_Witness ==
    /\ \E s \in DOMAIN lineLoginState, s2 \in issuedStates :
          /\ lineLoginState[s].createdAt = 0
          /\ s2 # s
          /\ Consumed(s2)
    /\ \E u \in DOMAIN user, w \in Week, t \in Time :
          user[u].classInTimeTable[w][t] # Null

\* request r starts as a lineLoginCallback whose code or state parameter is
\* missing or not a string
StartsWithMalformedQuery(r) ==
    /\ Starts(r, "lineLoginCallback")
    /\ \/ Started(r).query.code.type # "string"
       \/ Started(r).query.state.type # "string"

\* C29: a lineLoginCallback request in which code or state is missing or not
\* a string is answered with a redirect to the app's home before any store
\* access: the handler ends in its first step, no login state is read or
\* deleted, no user is created and no token hash is changed.
C29_MalformedQueryRedirected ==
    [][\A r \in Requests :
          StartsWithMalformedQuery(r) =>
            /\ pc'[r] = "done"
            /\ last'.response
                 = [kind |-> "redirect", to |-> "appHttpsSchemeAndHostName"]
            /\ last'.local = NoLocal
            /\ lineLoginState' = lineLoginState
            /\ checkLog' = checkLog
            /\ user' = user
            /\ issuedTokens' = issuedTokens]_vars

\* a callback without a code, presenting a stored state, was redirected and
\* the state is still stored, a user existing
C29_Witness ==
    /\ last.req.op = "lineLoginCallback"
    /\ last.req.query.code.type # "string"
    /\ last.req.query.state.type = "string"
    /\ last.req.query.state.value \in DOMAIN lineLoginState
    /\ last.response.kind = "redirect"
    /\ user # <<>>

\* value is a string of length FileHashLength whose every character is in 0-9a-f
IsFileHash(value) ==
    /\ value.type = "string"
    /\ Len(value.value) = FileHashLength
    /\ \A i \in 1..Len(value.value) : value.value[i] \in HexAlphabet

\* C30: parseFileHash returns its argument unchanged exactly when the
\* argument is a string of length FileHashLength (64) whose every character
\* is in 0-9a-f, and throws an error for every other input (non-string,
\* other length, uppercase or non-hex character); the file endpoint streams
\* a file only for a GET whose path, without its leading slash, passes this
\* check, and then streams the file of that name.
C30_ParseFileHash ==
    /\ last.req.op = "parseValue" =>
          IF IsFileHash(last.req.value)
          THEN last.response = [kind |-> "value", value |-> last.req.value]
          ELSE last.response.kind = "error"
    /\ last.req.op = "file" =>
          LET name == JsString(Tail(last.req.path)) IN
          IF last.req.method = "GET" /\ IsFileHash(name)
          THEN last.response = [kind |-> "stream", fileHash |-> name.value]
          ELSE last.response.kind # "stream"

\* a GET whose path is a slash and a well-formed hash was streamed
C30_Witness ==
    /\ last.req.op = "file"
    /\ last.req.method = "GET"
    /\ IsFileHash(JsString(Tail(last.req.path)))
    /\ last.response.kind = "stream"

====
